---- MODULE Spec2Model ----
(***************************************************************************)
(* Vote program (solana-program/vote): the instruction processor of        *)
(* program/src/processor.rs over one vote account, with the state types of *)
(* program/src/state.                                                      *)
(*                                                                         *)
(* The account buffer is modelled by what its bytes decode to: a layout    *)
(* (all zero, a tagged VoteStateVersions envelope, a bare VoteState1_14_11 *)
(* without the envelope tag, or a torn partial write) and the vote state   *)
(* the bytes carry.                                                        *)
(***************************************************************************)
EXTENDS Integers, Sequences, FiniteSets, TLC

(***************************************************************************)
(* Bounds of the model.                                                    *)
(***************************************************************************)
\* Ordinary (signing) keys are 1..NumKeys.
NumKeys == 2
\* Epochs are 0..EpochMax; EpochMax stands for u64::MAX (the Epoch width).
EpochMax == 1
\* Number of times the vote state is stored in one behaviour.
MaxStores == 2
\* A Slot (u64) is SlotBits bits wide: slots are 0..SlotMax.
SlotBits == 2
\* Confirmation counts handed to the Lockout operations are 0..CountMax;
\* CountMax stands for u32::MAX.
CountMax == 4
\* Longest lockout sequence of a TowerSync.
MaxLockouts == 2
\* Number of items appended to a CircBuf in one behaviour.
MaxAppends == 40

(***************************************************************************)
(* Keys.                                                                   *)
(***************************************************************************)
\* Pubkey::default(): the all-zero key. Nobody can sign for it.
DefaultKey == 0
Keys == 1..NumKeys
\* The vote account's own address (accounts[0].key).
VoteKey == 99
\* Longest seed Pubkey::create_with_seed accepts.
MAX_SEED_LEN == 32
\* Seed strings, by length: one that is accepted and one that is too long.
Seeds == {MAX_SEED_LEN, MAX_SEED_LEN + 1}
\* The address derived from (base, seed, owner): a hash, injective and
\* disjoint from the ordinary keys. One owner and one seed text per length.
DerivedKey(base) == 10 + base
\* Pubkey::create_with_seed
create_with_seed(base, seed) ==
    IF seed > MAX_SEED_LEN
    THEN [ok |-> FALSE, err |-> "MaxSeedLengthExceeded", key |-> DefaultKey]
    ELSE [ok |-> TRUE, err |-> "", key |-> DerivedKey(base)]
\* The keys the instructions name as authorities: the ordinary keys and the
\* address derived from key 1.
AuthorityKeys == Keys \cup {DerivedKey(1)}

(***************************************************************************)
(* state/circ_buf.rs                                                       *)
(***************************************************************************)
MAX_ITEMS == 32
\* I::default() for the prior-voter triple (Pubkey, Epoch, Epoch)
DefaultItem == <<DefaultKey, 0, 0>>
\* Default with the write index on the first position instead of the last.
CircBufDefault_IdxZero ==
    [buf |-> [i \in 0..(MAX_ITEMS - 1) |-> DefaultItem],
     idx |-> 0,
     is_empty |-> TRUE]
\* CircBuf::default
CircBufDefault ==
    [buf |-> [i \in 0..(MAX_ITEMS - 1) |-> DefaultItem],
     idx |-> MAX_ITEMS - 1,
     is_empty |-> TRUE]
\* append with the write index advanced modulo one less than the capacity.
CircBufAppend_Short(cb, item) ==
    LET idx == (cb.idx + 1) % (MAX_ITEMS - 1)
    IN  [buf |-> [cb.buf EXCEPT ![idx] = item], idx |-> idx, is_empty |-> FALSE]
\* CircBuf::append
CircBufAppend(cb, item) ==
    LET idx == (cb.idx + 1) % MAX_ITEMS
    IN  [buf |-> [cb.buf EXCEPT ![idx] = item], idx |-> idx, is_empty |-> FALSE]
\* Option<&I>: the empty sequence is None, <<x>> is Some(x).
CircBufLast(cb) == IF ~cb.is_empty THEN <<cb.buf[cb.idx]>> ELSE <<>>

(***************************************************************************)
(* state/lockout.rs: Lockout and LandedVote as the vote state stores them. *)
(***************************************************************************)
\* From<Lockout> for LandedVote
LandedVoteFromLockout(lockout) == [lockout |-> lockout, latency |-> 0]
\* From<LandedVote> for Lockout
LockoutFromLandedVote(landed_vote) == landed_vote.lockout
\* Slot::MAX = u64::MAX
SlotMax == 2 ^ SlotBits - 1
\* Lockout::new_with_confirmation_count
new_with_confirmation_count(slot, confirmation_count) == [slot |-> slot, confirmation_count |-> confirmation_count]
\* Lockout::new
LockoutNew(slot) == new_with_confirmation_count(slot, 1)
INITIAL_LOCKOUT == 2
\* u64::pow, as the set of its outcomes. A power that does not fit the width
\* aborts where the build checks arithmetic overflow and wraps around where
\* it does not.
u64_pow(base, exp) ==
    IF base ^ exp <= SlotMax
    THEN {[value |-> base ^ exp, panicked |-> FALSE]}
    ELSE {[value |-> 0, panicked |-> TRUE],
          [value |-> (base ^ exp) % (SlotMax + 1), panicked |-> FALSE]}
\* u64::saturating_add and u32::saturating_add, `max` being the type's MAX
saturating_add(a, b, max) == IF a + b > max THEN max ELSE a + b
\* Lockout::lockout
LockoutLockout(lockout) == u64_pow(INITIAL_LOCKOUT, lockout.confirmation_count)
\* Lockout::last_locked_out_slot
LockoutLastLockedOutSlot(lockout) ==
    {[value |-> IF p.panicked THEN 0 ELSE saturating_add(lockout.slot, p.value, SlotMax),
      panicked |-> p.panicked] : p \in LockoutLockout(lockout)}
\* Lockout::is_locked_out_at_slot
LockoutIsLockedOutAtSlot(lockout, slot) ==
    {[panicked |-> p.panicked, locked |-> ~p.panicked /\ p.value >= slot] :
        p \in LockoutLastLockedOutSlot(lockout)}
\* Lockout::increase_confirmation_count
LockoutIncreaseConfirmationCount(lockout, by) ==
    [lockout EXCEPT !.confirmation_count = saturating_add(@, by, CountMax)]

(***************************************************************************)
(* state/tower_sync.rs: serde_tower_sync, the conversion between TowerSync *)
(* and the compact form that goes on the wire. An Option is a sequence:    *)
(* <<>> is None and <<x>> is Some(x). The compact form's own byte encoding *)
(* (varint, short_vec) is the serializer's and is not part of this model.  *)
(***************************************************************************)
\* u8::MAX, the largest confirmation count the compact form carries
U8_MAX == 255
\* Option::unwrap_or
unwrap_or(option, default) == IF option = <<>> THEN default ELSE option[1]
\* serialize's closure, with a count above one byte cut down to its low byte
\* instead of rejected.
to_lockout_offset_Truncating(lockout, slot) ==
    IF lockout.slot < slot
    THEN [ok |-> FALSE, err |-> "Invalid vote lockout", value |-> <<>>]
    ELSE [ok |-> TRUE, err |-> "",
          value |-> [confirmation_count |-> lockout.confirmation_count % (U8_MAX + 1),
                     offset |-> lockout.slot - slot]]
\* serialize's closure: the LockoutOffset of one lockout, `slot` being the
\* scan's state (the anchor).
to_lockout_offset(lockout, slot) ==
    IF lockout.slot < slot
    THEN [ok |-> FALSE, err |-> "Invalid vote lockout", value |-> <<>>]
    ELSE IF lockout.confirmation_count > U8_MAX
    THEN [ok |-> FALSE, err |-> "Invalid confirmation count", value |-> <<>>]
    ELSE [ok |-> TRUE, err |-> "",
          value |-> [confirmation_count |-> lockout.confirmation_count,
                     offset |-> lockout.slot - slot]]
\* serialize: the scan over lockouts[i..] with the running anchor `slot`,
\* collected into a Result (the first error ends it).
RECURSIVE lockout_offsets_from(_, _, _)
lockout_offsets_from(lockouts, i, slot) ==
    IF i > Len(lockouts)
    THEN [ok |-> TRUE, err |-> "", value |-> <<>>]
    ELSE LET first == to_lockout_offset(lockouts[i], slot)
         IN  IF ~first.ok
             THEN first
             ELSE LET rest == lockout_offsets_from(lockouts, i + 1, lockouts[i].slot)
                  IN  IF ~rest.ok
                      THEN rest
                      ELSE [ok |-> TRUE, err |-> "",
                            value |-> <<first.value>> \o rest.value]
\* the root field of the compact form: root.unwrap_or(Slot::MAX)
compact_root(root) == unwrap_or(root, SlotMax)
\* serde_tower_sync::serialize
serde_tower_sync_serialize(tower_sync) ==
    LET lockout_offsets ==
            lockout_offsets_from(tower_sync.lockouts, 1, unwrap_or(tower_sync.root, 0))
    IN  IF ~lockout_offsets.ok
        THEN lockout_offsets
        ELSE [ok |-> TRUE, err |-> "",
              value |-> [root |-> compact_root(tower_sync.root),
                         lockout_offsets |-> lockout_offsets.value,
                         hash |-> tower_sync.hash,
                         timestamp |-> tower_sync.timestamp,
                         block_id |-> tower_sync.block_id]]
\* deserialize's closure, adding with wrap-around instead of checked_add.
restored_lockout_Wrapping(lockout_offset, slot) ==
    [ok |-> TRUE, err |-> "",
     value |-> new_with_confirmation_count(
                   (slot + lockout_offset.offset) % (SlotMax + 1),
                   lockout_offset.confirmation_count)]
\* deserialize's closure: the Lockout of one LockoutOffset, `slot` being the
\* scan's state; checked_add fails when the sum leaves the slot range.
restored_lockout(lockout_offset, slot) ==
    IF slot + lockout_offset.offset > SlotMax
    THEN [ok |-> FALSE, err |-> "Invalid lockout offset", value |-> <<>>]
    ELSE [ok |-> TRUE, err |-> "",
          value |-> new_with_confirmation_count(
                        slot + lockout_offset.offset,
                        lockout_offset.confirmation_count)]
\* deserialize: the scan over lockout_offsets[i..] with the running `slot`,
\* collected into a Result (the first error ends it).
RECURSIVE lockouts_from(_, _, _)
lockouts_from(lockout_offsets, i, slot) ==
    IF i > Len(lockout_offsets)
    THEN [ok |-> TRUE, err |-> "", value |-> <<>>]
    ELSE LET first == restored_lockout(lockout_offsets[i], slot)
         IN  IF ~first.ok
             THEN first
             ELSE LET rest == lockouts_from(lockout_offsets, i + 1, first.value.slot)
                  IN  IF ~rest.ok
                      THEN rest
                      ELSE [ok |-> TRUE, err |-> "",
                            value |-> <<first.value>> \o rest.value]
\* the root of the decoded TowerSync: (root != Slot::MAX).then_some(root)
restored_root(root) == IF root # SlotMax THEN <<root>> ELSE <<>>
\* serde_tower_sync::deserialize
serde_tower_sync_deserialize(compact) ==
    LET lockouts ==
            lockouts_from(compact.lockout_offsets, 1,
                          unwrap_or(restored_root(compact.root), 0))
    IN  IF ~lockouts.ok
        THEN lockouts
        ELSE [ok |-> TRUE, err |-> "",
              value |-> [lockouts |-> lockouts.value,
                         root |-> restored_root(compact.root),
                         hash |-> compact.hash,
                         timestamp |-> compact.timestamp,
                         block_id |-> compact.block_id]]

(***************************************************************************)
(* The authorized-voter schedule (state/authorized_voters.rs): a map from  *)
(* the epoch an entry takes effect to the voter, here a function whose     *)
(* domain is the set of scheduled epochs.                                  *)
(***************************************************************************)
MaxOf(S) == CHOOSE x \in S : \A y \in S : y <= x
AuthorizedVotersNew(epoch, pubkey) == [e \in {epoch} |-> pubkey]
AuthorizedVotersIsEmpty(av) == DOMAIN av = {}
AuthorizedVotersContains(av, epoch) == epoch \in DOMAIN av
\* The voter in effect at `epoch`: the entry with the greatest epoch <= it.
\* <<>> when no entry is old enough.
AuthorizedVoterForEpoch(av, epoch) ==
    LET le == {e \in DOMAIN av : e <= epoch}
    IN  IF le = {} THEN <<>> ELSE <<av[MaxOf(le)]>>
AuthorizedVotersLast(av) == LET e == MaxOf(DOMAIN av) IN <<e, av[e]>>
AuthorizedVotersInsert(av, epoch, pubkey) ==
    [e \in (DOMAIN av) \cup {epoch} |-> IF e = epoch THEN pubkey ELSE av[e]]

(***************************************************************************)
(* The versioned vote state: VoteState (current), VoteState1_14_11         *)
(* (legacy) and the default VoteState0_23_5 an all-zero buffer decodes to. *)
(***************************************************************************)
NoTimestamp == [slot |-> 0, timestamp |-> 0]
\* VoteState::new
VoteStateNew(vote_init, clock) ==
    [node_pubkey |-> vote_init.node_pubkey,
     authorized_withdrawer |-> vote_init.authorized_withdrawer,
     commission |-> vote_init.commission,
     votes |-> <<>>,
     root_slot |-> <<>>,
     authorized_voters |-> AuthorizedVotersNew(clock.epoch, vote_init.authorized_voter),
     prior_voters |-> CircBufDefault,
     epoch_credits |-> <<>>,
     last_timestamp |-> NoTimestamp]
\* VoteState1_14_11::from(VoteState): the votes lose their latency.
VoteState1_14_11From(vote_state) ==
    [vote_state EXCEPT
        !.votes = [i \in 1..Len(vote_state.votes) |->
                      LockoutFromLandedVote(vote_state.votes[i])]]
\* VoteState0_23_5::default(), what tag 0 followed by zero bytes decodes to.
VoteState0_23_5Default ==
    [node_pubkey |-> DefaultKey,
     authorized_withdrawer |-> DefaultKey,
     commission |-> 0,
     votes |-> <<>>,
     root_slot |-> <<>>,
     authorized_voter |-> DefaultKey,
     epoch_credits |-> <<>>,
     last_timestamp |-> NoTimestamp,
     authorized_voter_epoch |-> 0]
\* VoteStateVersions::new_current
NewCurrent(vote_state) == [tag |-> "Current", state |-> vote_state]
\* VoteStateVersions::convert_to_current
convert_to_current(versions) ==
    CASE versions.tag = "Current" -> versions.state
      [] versions.tag = "V1_14_11" ->
            [versions.state EXCEPT
                !.votes = [i \in 1..Len(versions.state.votes) |->
                              LandedVoteFromLockout(versions.state.votes[i])]]
      [] OTHER ->
            [node_pubkey |-> versions.state.node_pubkey,
             authorized_withdrawer |-> versions.state.authorized_withdrawer,
             commission |-> versions.state.commission,
             votes |-> [i \in 1..Len(versions.state.votes) |->
                           LandedVoteFromLockout(versions.state.votes[i])],
             root_slot |-> versions.state.root_slot,
             authorized_voters |->
                 AuthorizedVotersNew(versions.state.authorized_voter_epoch,
                                     versions.state.authorized_voter),
             prior_voters |-> CircBufDefault,
             epoch_credits |-> versions.state.epoch_credits,
             last_timestamp |-> versions.state.last_timestamp]
\* VoteStateVersions::is_uninitialized
is_uninitialized(versions) ==
    IF versions.tag = "V0_23_5"
    THEN versions.state.authorized_voter = DefaultKey
    ELSE AuthorizedVotersIsEmpty(versions.state.authorized_voters)

(***************************************************************************)
(* Sizes, in bytes, of the bincode encodings.                              *)
(***************************************************************************)
\* VoteStateVersions::vote_state_size_of(true): the current layout, full.
CurrentStateSize == 3762
\* VoteStateVersions::vote_state_size_of(false): the legacy layout, full.
LegacyStateSize == 3731
\* The u32 variant tag of the VoteStateVersions envelope.
TagSize == 4
\* The fixed part of a vote state: two keys, commission, the three length
\* prefixes, the root's option byte, the prior-voter ring and the timestamp.
FixedStateSize == 1651
\* What bincode writes for a VoteStateVersions::Current(vote_state).
CurrentEncodedSize(vote_state) ==
    TagSize + FixedStateSize + 13 * Len(vote_state.votes)
        + 8 * Len(vote_state.root_slot)
        + 40 * Cardinality(DOMAIN vote_state.authorized_voters)
        + 24 * Len(vote_state.epoch_credits)
\* What bincode writes for a bare VoteState1_14_11.
LegacyEncodedSize(legacy) ==
    FixedStateSize + 12 * Len(legacy.votes)
        + 8 * Len(legacy.root_slot)
        + 40 * Cardinality(DOMAIN legacy.authorized_voters)
        + 24 * Len(legacy.epoch_credits)

(***************************************************************************)
(* The account buffer.                                                     *)
(***************************************************************************)
ZeroData == [tag |-> "V0_23_5", state |-> VoteState0_23_5Default, layout |-> "zero"]
TornData == [tag |-> "", state |-> VoteState0_23_5Default, layout |-> "torn"]
VersionsData(versions) ==
    [tag |-> versions.tag, state |-> versions.state, layout |-> "versions"]
BareLegacyData(legacy) ==
    [tag |-> "", state |-> legacy, layout |-> "bare_1_14_11"]
\* bincode::deserialize::<VoteStateVersions>(&data): the first four bytes are
\* the variant tag. A bare VoteState1_14_11 starts with its node_pubkey, and
\* no key of the model starts with the bytes of a valid tag.
Deserialize(account) ==
    IF account.data_len < TagSize THEN [ok |-> FALSE, versions |-> ZeroData]
    ELSE IF account.data.layout = "zero" THEN [ok |-> TRUE, versions |-> ZeroData]
    ELSE IF account.data.layout = "versions"
         THEN [ok |-> TRUE, versions |-> account.data]
    ELSE [ok |-> FALSE, versions |-> ZeroData]

(***************************************************************************)
(* Rent (sysvar): the exemption predicate, one lamport per byte and the    *)
(* account storage overhead.                                               *)
(***************************************************************************)
ACCOUNT_STORAGE_OVERHEAD == 128
minimum_balance(data_len) == ACCOUNT_STORAGE_OVERHEAD + data_len
is_exempt(lamports, data_len) == lamports >= minimum_balance(data_len)

(***************************************************************************)
(* processor.rs                                                            *)
(***************************************************************************)
\* A handler's outcome: the ProgramResult and the account as it leaves it.
Outcome(result, account) == [account |-> account, result |-> result]

get_signers(accounts) ==
    {accounts[i].key : i \in {j \in 1..Len(accounts) : accounts[j].is_signer}}

verify_authorized_signer(authorized, signers) ==
    IF authorized \in signers THEN "Ok" ELSE "MissingRequiredSignature"

\* The store. realloc_ok: whether the host's realloc succeeds when asked.
\* serialize_into writes into the buffer as it goes: when the encoding does
\* not fit, the bytes written so far stay (a torn buffer).
set_vote_account_state_GrowUnfunded(account, vote_state, realloc_ok) ==
    LET vote_state_size == CurrentStateSize
        too_small == account.data_len < vote_state_size
        legacy == VoteState1_14_11From(vote_state)
        grown == IF too_small /\ realloc_ok
                 THEN [account EXCEPT !.data_len = vote_state_size]
                 ELSE account
    IN  IF too_small /\ ~realloc_ok
        THEN Outcome("Ok", [account EXCEPT !.data = BareLegacyData(legacy)])
        ELSE Outcome("Ok", [grown EXCEPT !.data = VersionsData(NewCurrent(vote_state))])
\* The store, growing a too-small buffer to one byte more than the current size.
set_vote_account_state_Overgrow(account, vote_state, realloc_ok) ==
    LET vote_state_size == CurrentStateSize
        too_small == account.data_len < vote_state_size
        exempt == is_exempt(account.lamports, vote_state_size)
        legacy == VoteState1_14_11From(vote_state)
        grown == IF too_small /\ exempt /\ realloc_ok
                 THEN [account EXCEPT !.data_len = vote_state_size + 1]
                 ELSE account
    IN  IF too_small /\ (~exempt \/ ~realloc_ok)
        THEN Outcome("Ok", [account EXCEPT !.data = BareLegacyData(legacy)])
        ELSE Outcome("Ok", [grown EXCEPT !.data = VersionsData(NewCurrent(vote_state))])
set_vote_account_state(account, vote_state, realloc_ok) ==
    LET vote_state_size == CurrentStateSize
        too_small == account.data_len < vote_state_size
        exempt == is_exempt(account.lamports, vote_state_size)
        legacy == VoteState1_14_11From(vote_state)
        grown == IF too_small /\ exempt /\ realloc_ok
                 THEN [account EXCEPT !.data_len = vote_state_size]
                 ELSE account
    IN  IF too_small /\ (~exempt \/ ~realloc_ok)
        THEN IF LegacyEncodedSize(legacy) > account.data_len
             THEN Outcome("InvalidAccountData", [account EXCEPT !.data = TornData])
             ELSE Outcome("Ok", [account EXCEPT !.data = BareLegacyData(legacy)])
        ELSE IF CurrentEncodedSize(vote_state) > grown.data_len
             THEN Outcome("InvalidAccountData", [grown EXCEPT !.data = TornData])
             ELSE Outcome("Ok",
                     [grown EXCEPT !.data = VersionsData(NewCurrent(vote_state))])

\* The size test of process_initialize_account.
wrong_size_AtLeast(data_len) == data_len < CurrentStateSize
wrong_size(data_len) == data_len # CurrentStateSize

\* The re-initialization test of process_initialize_account.
already_initialized_Never(versions) == FALSE
already_initialized(versions) == ~is_uninitialized(versions)

\* process_initialize_account with the size test ahead of the balance test.
process_initialize_account_SizeFirst(accounts, vote_init, account, clock, realloc_ok) ==
    LET signers == get_signers(accounts)
        decoded == Deserialize(account)
    IN  IF Len(accounts) < 1 THEN Outcome("NotEnoughAccountKeys", account)
        ELSE IF wrong_size(account.data_len)
             THEN Outcome("InvalidAccountData", account)
        ELSE IF ~is_exempt(account.lamports, account.data_len)
             THEN Outcome("InsufficientFunds", account)
        ELSE IF ~decoded.ok THEN Outcome("InvalidAccountData", account)
        ELSE IF already_initialized(decoded.versions)
             THEN Outcome("AccountAlreadyInitialized", account)
        ELSE IF verify_authorized_signer(vote_init.node_pubkey, signers) # "Ok"
             THEN Outcome("MissingRequiredSignature", account)
        ELSE set_vote_account_state(account, VoteStateNew(vote_init, clock),
                                    realloc_ok)
process_initialize_account(accounts, vote_init, account, clock, realloc_ok) ==
    LET signers == get_signers(accounts)
        decoded == Deserialize(account)
    IN  IF Len(accounts) < 1 THEN Outcome("NotEnoughAccountKeys", account)
        ELSE IF ~is_exempt(account.lamports, account.data_len)
             THEN Outcome("InsufficientFunds", account)
        ELSE IF wrong_size(account.data_len)
             THEN Outcome("InvalidAccountData", account)
        ELSE IF ~decoded.ok THEN Outcome("InvalidAccountData", account)
        ELSE IF already_initialized(decoded.versions)
             THEN Outcome("AccountAlreadyInitialized", account)
        ELSE IF verify_authorized_signer(vote_init.node_pubkey, signers) # "Ok"
             THEN Outcome("MissingRequiredSignature", account)
        ELSE set_vote_account_state(account, VoteStateNew(vote_init, clock),
                                    realloc_ok)

\* The consent closure process_authorize hands to set_new_authorized_voter.
authorize_voter_consent_VoterOnly(authorized_withdrawer_signer, epoch_authorized_voter, signers) ==
    verify_authorized_signer(epoch_authorized_voter, signers)
authorize_voter_consent(authorized_withdrawer_signer, epoch_authorized_voter, signers) ==
    IF authorized_withdrawer_signer
    THEN "Ok"
    ELSE verify_authorized_signer(epoch_authorized_voter, signers)

\* VoteState::set_new_authorized_voter: the voter in effect at the target
\* epoch is asked for consent, then the new voter is scheduled at the target
\* epoch. What happens when the target epoch already has an entry is left
\* open: conflict_rejects chooses between refusing and replacing the entry.
set_new_authorized_voter(vote_state, authorized, current_epoch, target_epoch, authorized_withdrawer_signer, signers, conflict_rejects) ==
    LET av == vote_state.authorized_voters
        voter == AuthorizedVoterForEpoch(av, target_epoch)
        latest == AuthorizedVotersLast(av)
        last_switch == CircBufLast(vote_state.prior_voters)
        epoch_of_last_authorized_switch ==
            IF last_switch = <<>> THEN 0 ELSE last_switch[1][3]
    IN  IF voter = <<>>
        THEN [vote_state |-> vote_state, result |-> "InvalidAccountData"]
        ELSE IF authorize_voter_consent(authorized_withdrawer_signer, voter[1],
                                        signers) # "Ok"
             THEN [vote_state |-> vote_state, result |-> "MissingRequiredSignature"]
        ELSE IF AuthorizedVotersContains(av, target_epoch) /\ conflict_rejects
             THEN [vote_state |-> vote_state, result |-> "TooSoonToReauthorize"]
        ELSE [vote_state |->
                 [vote_state EXCEPT
                     !.prior_voters =
                         IF latest[2] # authorized
                         THEN CircBufAppend(@, <<latest[2],
                                                 epoch_of_last_authorized_switch,
                                                 target_epoch>>)
                         ELSE @,
                     !.authorized_voters =
                         AuthorizedVotersInsert(av, target_epoch, authorized)],
              result |-> "Ok"]

\* The epoch process_authorize schedules a new voter for:
\* leader_schedule_epoch.checked_add(1), <<>> when the addition overflows.
voter_target_epoch_NoDelay(clock) == <<clock.leader_schedule_epoch>>
voter_target_epoch(clock) ==
    IF clock.leader_schedule_epoch = EpochMax
    THEN <<>>
    ELSE <<clock.leader_schedule_epoch + 1>>

\* The VoteAuthorize::Withdrawer arm of process_authorize.
authorize_withdrawer_ByNewKey(vote_state, authorized, signers) ==
    IF verify_authorized_signer(authorized, signers) # "Ok"
    THEN [vote_state |-> vote_state, result |-> "MissingRequiredSignature"]
    ELSE [vote_state |-> [vote_state EXCEPT !.authorized_withdrawer = authorized],
          result |-> "Ok"]
authorize_withdrawer_Unverified(vote_state, authorized, signers) ==
    [vote_state |-> [vote_state EXCEPT !.authorized_withdrawer = authorized],
     result |-> "Ok"]
\* The withdrawer arm, installing the new key as the node identity as well.
authorize_withdrawer_AlsoNode(vote_state, authorized, signers) ==
    IF verify_authorized_signer(vote_state.authorized_withdrawer, signers) # "Ok"
    THEN [vote_state |-> vote_state, result |-> "MissingRequiredSignature"]
    ELSE [vote_state |-> [vote_state EXCEPT !.authorized_withdrawer = authorized,
                                            !.node_pubkey = authorized],
          result |-> "Ok"]
authorize_withdrawer(vote_state, authorized, signers) ==
    IF verify_authorized_signer(vote_state.authorized_withdrawer, signers) # "Ok"
    THEN [vote_state |-> vote_state, result |-> "MissingRequiredSignature"]
    ELSE [vote_state |-> [vote_state EXCEPT !.authorized_withdrawer = authorized],
          result |-> "Ok"]

process_authorize(accounts, authorized, vote_authorize, signers, account, clock, realloc_ok, conflict_rejects) ==
    LET decoded == Deserialize(account)
        vote_state == convert_to_current(decoded.versions)
        authorized_withdrawer_signer ==
            verify_authorized_signer(vote_state.authorized_withdrawer, signers) = "Ok"
        target_epoch == voter_target_epoch(clock)
        voted == set_new_authorized_voter(vote_state, authorized, clock.epoch,
                     target_epoch[1], authorized_withdrawer_signer, signers,
                     conflict_rejects)
        withdrawn == authorize_withdrawer(vote_state, authorized, signers)
    IN  IF Len(accounts) < 1 THEN Outcome("NotEnoughAccountKeys", account)
        ELSE IF ~decoded.ok THEN Outcome("InvalidAccountData", account)
        ELSE IF vote_authorize = "Voter"
             THEN IF target_epoch = <<>>
                  THEN Outcome("InvalidAccountData", account)
                  ELSE IF voted.result # "Ok"
                       THEN Outcome(voted.result, account)
                       ELSE set_vote_account_state(account, voted.vote_state,
                                                   realloc_ok)
        ELSE IF withdrawn.result # "Ok"
             THEN Outcome(withdrawn.result, account)
        ELSE set_vote_account_state(account, withdrawn.vote_state, realloc_ok)

\* accounts[3] of the source is accounts[4] here (sequences start at 1).
process_authorize_checked(accounts, vote_authorize, account, clock, realloc_ok, conflict_rejects) ==
    IF Len(accounts) < 4
    THEN Outcome("Panic", account)
    ELSE process_authorize(accounts, accounts[4].key, vote_authorize,
                           get_signers(accounts), account, clock,
                           realloc_ok, conflict_rejects)

\* The signer set the seed variants hand to process_authorize: the derived
\* key when the base (accounts[2] of the source) signed, else nothing.
expected_authority_keys(accounts, seed) ==
    IF accounts[3].is_signer
    THEN {create_with_seed(accounts[3].key, seed).key}
    ELSE {}

process_authorize_with_seed(accounts, authorized, authorization_type, seed, account, clock, realloc_ok, conflict_rejects) ==
    IF Len(accounts) < 3 THEN Outcome("Panic", account)
    ELSE IF accounts[3].is_signer /\ ~create_with_seed(accounts[3].key, seed).ok
         THEN Outcome(create_with_seed(accounts[3].key, seed).err, account)
    ELSE process_authorize(accounts, authorized, authorization_type,
                           expected_authority_keys(accounts, seed),
                           account, clock, realloc_ok, conflict_rejects)

process_authorize_checked_with_seed(accounts, authorization_type, seed, account, clock, realloc_ok, conflict_rejects) ==
    IF Len(accounts) < 4
    THEN Outcome("Panic", account)
    ELSE process_authorize_with_seed(accounts, accounts[4].key, authorization_type,
                                     seed, account, clock, realloc_ok,
                                     conflict_rejects)

\* The new node's consent in process_update_validator_identity.
new_node_consent_NotAsked(node_key, signers) == "Ok"
new_node_consent(node_key, signers) == verify_authorized_signer(node_key, signers)

process_update_validator_identity_StoreFirst(accounts, account, realloc_ok) ==
    LET signers == get_signers(accounts)
        decoded == Deserialize(account)
        vote_state == convert_to_current(decoded.versions)
        stored == set_vote_account_state(account,
                     [vote_state EXCEPT !.node_pubkey = accounts[2].key], realloc_ok)
    IN  IF Len(accounts) < 2 THEN Outcome("NotEnoughAccountKeys", account)
        ELSE IF ~decoded.ok THEN Outcome("InvalidAccountData", account)
        ELSE IF verify_authorized_signer(vote_state.authorized_withdrawer,
                                         signers) # "Ok"
             THEN Outcome("MissingRequiredSignature", account)
        ELSE IF new_node_consent(accounts[2].key, signers) # "Ok"
             THEN Outcome("MissingRequiredSignature", stored.account)
        ELSE stored
process_update_validator_identity(accounts, account, realloc_ok) ==
    LET signers == get_signers(accounts)
        decoded == Deserialize(account)
        vote_state == convert_to_current(decoded.versions)
    IN  IF Len(accounts) < 2 THEN Outcome("NotEnoughAccountKeys", account)
        ELSE IF ~decoded.ok THEN Outcome("InvalidAccountData", account)
        ELSE IF verify_authorized_signer(vote_state.authorized_withdrawer,
                                         signers) # "Ok"
             THEN Outcome("MissingRequiredSignature", account)
        ELSE IF new_node_consent(accounts[2].key, signers) # "Ok"
             THEN Outcome("MissingRequiredSignature", account)
        ELSE set_vote_account_state(account,
                [vote_state EXCEPT !.node_pubkey = accounts[2].key], realloc_ok)

process_update_commission(accounts, account) == Outcome("Ok", account)
process_vote(accounts, account) == Outcome("Ok", account)
process_update_vote_state(accounts, account) == Outcome("Ok", account)
process_withdraw(accounts, account) == Outcome("Ok", account)

StubKinds ==
    {"UpdateCommission", "Vote", "VoteSwitch", "UpdateVoteState",
     "UpdateVoteStateSwitch", "CompactUpdateVoteState",
     "CompactUpdateVoteStateSwitch", "Withdraw"}
TowerSyncKinds == {"TowerSync", "TowerSyncSwitch"}

\* The TowerSync / TowerSyncSwitch arm of process.
process_tower_sync_Accepted(accounts, account) == process_vote(accounts, account)
process_tower_sync(accounts, account) == Outcome("InvalidInstructionData", account)

\* The dispatcher. An instruction whose bytes limited_deserialize rejects has
\* kind "Undecodable".
process(accounts, instruction, account, clock, realloc_ok, conflict_rejects) ==
    CASE instruction.kind = "Undecodable" ->
            Outcome("InvalidInstructionData", account)
      [] instruction.kind = "InitializeAccount" ->
            process_initialize_account(accounts, instruction.vote_init, account,
                                       clock, realloc_ok)
      [] instruction.kind = "Authorize" ->
            process_authorize(accounts, instruction.authorized,
                              instruction.vote_authorize, get_signers(accounts),
                              account, clock, realloc_ok, conflict_rejects)
      [] instruction.kind = "AuthorizeChecked" ->
            process_authorize_checked(accounts, instruction.vote_authorize,
                                      account, clock, realloc_ok, conflict_rejects)
      [] instruction.kind = "AuthorizeWithSeed" ->
            process_authorize_with_seed(accounts, instruction.authorized,
                                        instruction.vote_authorize, instruction.seed,
                                        account, clock, realloc_ok, conflict_rejects)
      [] instruction.kind = "AuthorizeCheckedWithSeed" ->
            process_authorize_checked_with_seed(accounts, instruction.vote_authorize,
                                                instruction.seed, account, clock,
                                                realloc_ok, conflict_rejects)
      [] instruction.kind = "UpdateValidatorIdentity" ->
            process_update_validator_identity(accounts, account, realloc_ok)
      [] instruction.kind = "UpdateCommission" ->
            process_update_commission(accounts, account)
      [] instruction.kind \in {"Vote", "VoteSwitch"} -> process_vote(accounts, account)
      [] instruction.kind \in {"UpdateVoteState", "UpdateVoteStateSwitch",
                               "CompactUpdateVoteState",
                               "CompactUpdateVoteStateSwitch"} ->
            process_update_vote_state(accounts, account)
      [] instruction.kind \in TowerSyncKinds -> process_tower_sync(accounts, account)
      [] OTHER -> process_withdraw(accounts, account)

(***************************************************************************)
(* The state machine: one vote account and the clock, between invocations  *)
(* of process; and, while an invocation's result is being reported, the    *)
(* invocation's inputs, its result and the account as it was before.       *)
(***************************************************************************)
VARIABLES
    account,      \* the vote account: [data, data_len, lamports]
    clock,        \* the Clock sysvar: [epoch, leader_schedule_epoch]
    instruction,  \* the instruction being reported (NoInstr between invocations)
    accounts,     \* its account list: a sequence of [key, is_signer]
    host,         \* what the host did in it: [realloc_ok, conflict_rejects]
    result,       \* its ProgramResult
    before,       \* the vote account as the invocation found it
    stores,       \* number of invocations that stored a vote state so far
    initializations  \* history: how many InitializeAccount succeeded on the
                     \* account, the one that made a legacy account included

\* The state types of program/src/state are exercised on their own, apart
\* from the processor: each by a specification that draws its inputs and
\* applies its operations while the processor is not running.
VARIABLES
    sent,         \* the TowerSync handed to serialize (an Option)
    wire,         \* the compact form on the wire: serialize's Result, or
                  \* a compact form received from elsewhere (an Option)
    received,     \* deserialize's Result for the wire (an Option)
    held,         \* the Lockout under test (an Option)
    call,         \* the last Lockout method called on it and what came of it
    ring,         \* the CircBuf under test
    appended,     \* history: the items appended to it so far, in order
    walked        \* how many positions a reader has stepped back from the
                  \* write index

processorVars ==
    <<account, clock, instruction, accounts, host, result, before, stores,
      initializations>>
towerSyncVars == <<sent, wire, received>>
lockoutVars == <<held, call>>
circBufVars == <<ring, appended, walked>>
stateVars == <<towerSyncVars, lockoutVars, circBufVars>>
vars == <<processorVars, stateVars>>
\* Nothing is being encoded or decoded.
TowerSyncAtRest ==
    /\ sent = <<>>
    /\ wire = <<>>
    /\ received = <<>>
\* No Lockout is under test.
NoCall == [slot |-> 0, value |-> 0, panicked |-> FALSE, locked |-> FALSE, method |-> "None"]
LockoutAtRest ==
    /\ held = <<>>
    /\ call = NoCall
\* No CircBuf is under test.
CircBufAtRest ==
    /\ ring = CircBufDefault
    /\ appended = <<>>
    /\ walked = 0
StateTypesAtRest ==
    /\ TowerSyncAtRest
    /\ LockoutAtRest
    /\ CircBufAtRest

\* Inputs.
Commissions == {5}
VoteInits ==
    [node_pubkey : Keys,
     authorized_withdrawer : AuthorityKeys,
     commission : Commissions,
     authorized_voter : AuthorityKeys]
NoVoteInit ==
    [node_pubkey |-> DefaultKey,
     authorized_withdrawer |-> DefaultKey,
     commission |-> 0,
     authorized_voter |-> DefaultKey]
VoteAuthorizes == {"Voter", "Withdrawer"}
Instr(kind, vote_init, authorized, vote_authorize, seed) ==
    [seed |-> seed,
     vote_init |-> vote_init,
     authorized |-> authorized,
     vote_authorize |-> vote_authorize,
     kind |-> kind]
NoInstr == Instr("None", NoVoteInit, DefaultKey, "None", 0)

\* Account lists. The first account is the vote account; the others carry
\* ordinary keys, and a key is a signer of the whole instruction or not.
VoteAccount == [key |-> VoteKey, is_signer |-> FALSE]
AccountList(keys, signing) ==
    [i \in 1..(Len(keys) + 1) |->
        IF i = 1 THEN VoteAccount
        ELSE [key |-> keys[i - 1], is_signer |-> keys[i - 1] \in signing]]
AccountLists(n) ==
    {AccountList(keys, signing) :
        keys \in [1..(n - 1) -> Keys], signing \in SUBSET Keys}
\* Lists too short for a handler that indexes account n: one of each length
\* below n, and nobody signs.
ShortLists(n) ==
    {<<>>} \cup {AccountList([i \in 1..(m - 1) |-> 1], {}) : m \in 1..(n - 1)}
\* Lists for the handlers that read only accounts[0] and the signer set.
SortedSeq(S) ==
    [i \in 1..Cardinality(S) |->
        CHOOSE k \in S : Cardinality({j \in S : j < k}) = i - 1]
SignerLists == {<<>>} \cup {AccountList(SortedSeq(S), S) : S \in SUBSET Keys}
\* Lists for the handlers that index accounts[3] (the new authority).
CheckedLists == AccountLists(4) \cup ShortLists(4)
\* Lists for the handler that indexes accounts[2] (the seed base).
SeedLists == AccountLists(3) \cup ShortLists(3)
\* Lists for the handler that takes a second account (the new node).
IdentityLists == AccountLists(3) \cup AccountLists(2) \cup ShortLists(2)

\* The lengths a vote account's buffer comes in, and the balances around the
\* exemption thresholds.
DataLens == {0, LegacyStateSize, CurrentStateSize, CurrentStateSize + 1}
LamportLevels ==
    {0, minimum_balance(CurrentStateSize) - 1,
     minimum_balance(CurrentStateSize), minimum_balance(CurrentStateSize + 1)}
\* A vote account initialized by the program's predecessor in the legacy
\* layout: a legacy-sized buffer holding a V1_14_11 envelope.
LegacyVoteState ==
    [node_pubkey |-> 1,
     authorized_withdrawer |-> NumKeys,
     commission |-> 5,
     votes |-> <<[slot |-> 7, confirmation_count |-> 1]>>,
     root_slot |-> <<>>,
     authorized_voters |-> AuthorizedVotersNew(0, 1),
     prior_voters |-> CircBufDefault,
     epoch_credits |-> <<>>,
     last_timestamp |-> NoTimestamp]
LegacyAccounts ==
    {[data_len |-> LegacyStateSize,
      data |-> VersionsData([tag |-> "V1_14_11", state |-> LegacyVoteState]),
      lamports |-> l] :
        l \in {x \in LamportLevels : is_exempt(x, LegacyStateSize)}}
FreshAccounts ==
    {[data_len |-> n, data |-> ZeroData, lamports |-> l] :
        n \in DataLens, l \in LamportLevels}
NoAccount == [data_len |-> 0, data |-> ZeroData, lamports |-> 0]
NoHost == [realloc_ok |-> TRUE, conflict_rejects |-> FALSE]

Idle == instruction.kind = "None"

Init ==
    /\ account \in FreshAccounts \cup LegacyAccounts
    /\ clock = [epoch |-> 0, leader_schedule_epoch |-> 0]
    /\ instruction = NoInstr
    /\ accounts = <<>>
    /\ host = NoHost
    /\ result = "None"
    /\ before = NoAccount
    /\ stores = 0
    /\ initializations = IF account \in LegacyAccounts THEN 1 ELSE 0
    /\ StateTypesAtRest

\* The host's choices that can matter to an invocation on this account.
ReallocChoices ==
    IF account.data_len < CurrentStateSize
       /\ is_exempt(account.lamports, CurrentStateSize)
    THEN BOOLEAN ELSE {TRUE}
ConflictChoices(ix) ==
    IF /\ ix.vote_authorize = "Voter"
       /\ Deserialize(account).ok
       /\ voter_target_epoch(clock) # <<>>
       /\ AuthorizedVotersContains(
              convert_to_current(Deserialize(account).versions).authorized_voters,
              voter_target_epoch(clock)[1])
    THEN BOOLEAN ELSE {FALSE}

\* One invocation of process.
Invoke(ix, accts) ==
    /\ Idle
    /\ \E realloc_ok \in ReallocChoices, conflict_rejects \in ConflictChoices(ix) :
          LET out == process(accts, ix, account, clock, realloc_ok, conflict_rejects)
          IN  /\ out.account # account => stores < MaxStores
              /\ account' = out.account
              /\ result' = out.result
              /\ host' = [realloc_ok |-> realloc_ok,
                          conflict_rejects |-> conflict_rejects]
              /\ stores' = IF out.account # account THEN stores + 1 ELSE stores
              /\ initializations' =
                    IF ix.kind = "InitializeAccount" /\ out.result = "Ok"
                    THEN initializations + 1
                    ELSE initializations
    /\ instruction' = ix
    /\ accounts' = accts
    /\ before' = account
    /\ UNCHANGED <<clock, stateVars>>

InitializeAccount ==
    \E vote_init \in VoteInits, accts \in SignerLists :
        Invoke(Instr("InitializeAccount", vote_init, DefaultKey, "None", 0), accts)
Authorize ==
    \E authorized \in AuthorityKeys, vote_authorize \in VoteAuthorizes,
       accts \in SignerLists :
        Invoke(Instr("Authorize", NoVoteInit, authorized, vote_authorize, 0), accts)
AuthorizeChecked ==
    \E vote_authorize \in VoteAuthorizes, accts \in CheckedLists :
        Invoke(Instr("AuthorizeChecked", NoVoteInit, DefaultKey, vote_authorize, 0), accts)
AuthorizeWithSeed ==
    \E authorized \in AuthorityKeys, vote_authorize \in VoteAuthorizes, seed \in Seeds,
       accts \in SeedLists :
        Invoke(Instr("AuthorizeWithSeed", NoVoteInit, authorized, vote_authorize, seed),
               accts)
AuthorizeCheckedWithSeed ==
    \E vote_authorize \in VoteAuthorizes, seed \in Seeds,
       accts \in CheckedLists :
        Invoke(Instr("AuthorizeCheckedWithSeed", NoVoteInit, DefaultKey,
                     vote_authorize, seed), accts)
UpdateValidatorIdentity ==
    \E accts \in IdentityLists :
        Invoke(Instr("UpdateValidatorIdentity", NoVoteInit, DefaultKey, "None", 0), accts)
Stubbed ==
    \E kind \in StubKinds :
        Invoke(Instr(kind, NoVoteInit, DefaultKey, "None", 0), <<VoteAccount>>)
TowerSync ==
    \E kind \in TowerSyncKinds, accts \in SignerLists :
        Invoke(Instr(kind, NoVoteInit, DefaultKey, "None", 0), accts)
Undecodable ==
    Invoke(Instr("Undecodable", NoVoteInit, DefaultKey, "None", 0), <<VoteAccount>>)

\* The invocation's result has been reported to the caller.
Return ==
    /\ ~Idle
    /\ instruction' = NoInstr
    /\ accounts' = <<>>
    /\ host' = NoHost
    /\ result' = "None"
    /\ before' = NoAccount
    /\ UNCHANGED <<account, clock, stores, initializations, stateVars>>

\* The environment, between invocations: the clock moves forward, and anyone
\* may add lamports to the account.
AdvanceClock ==
    /\ Idle
    /\ \E e \in clock.epoch..EpochMax, l \in clock.leader_schedule_epoch..EpochMax :
          /\ e <= l
          /\ <<e, l>> # <<clock.epoch, clock.leader_schedule_epoch>>
          /\ clock' = [epoch |-> e, leader_schedule_epoch |-> l]
    /\ UNCHANGED <<account, instruction, accounts, host, result, before, stores,
                   initializations, stateVars>>
Deposit ==
    /\ Idle
    /\ \E l \in LamportLevels :
          /\ l > account.lamports
          /\ account' = [account EXCEPT !.lamports = l]
    /\ UNCHANGED <<clock, instruction, accounts, host, result, before, stores,
                   initializations, stateVars>>

Next ==
    \/ InitializeAccount
    \/ Authorize
    \/ AuthorizeChecked
    \/ AuthorizeWithSeed
    \/ AuthorizeCheckedWithSeed
    \/ UpdateValidatorIdentity
    \/ Stubbed
    \/ TowerSync
    \/ Undecodable
    \/ Return
    \/ AdvanceClock
    \/ Deposit

Spec == Init /\ [][Next]_vars

(***************************************************************************)
(* The TowerSync codec on its own: a TowerSync is handed to serialize and  *)
(* what it put on the wire is handed to deserialize; or a compact form     *)
(* arrives from elsewhere and is handed to deserialize.                    *)
(***************************************************************************)
\* The processor is not running: no account, no invocation.
ProcessorAtRest ==
    /\ account = NoAccount
    /\ clock = [epoch |-> 0, leader_schedule_epoch |-> 0]
    /\ instruction = NoInstr
    /\ accounts = <<>>
    /\ host = NoHost
    /\ result = "None"
    /\ before = NoAccount
    /\ stores = 0
    /\ initializations = 0
\* Inputs.
Slots == 0..SlotMax
\* confirmation_count is a u32: the values around the u8 range
ConfirmationCounts == {0, 1, U8_MAX, U8_MAX + 1}
Lockouts == {new_with_confirmation_count(slot, c) : slot \in Slots, c \in ConfirmationCounts}
SeqsUpTo(S, n) == UNION {[1..m -> S] : m \in 0..n}
Hashes == {1}
Timestamps == {<<>>, <<7>>}
BlockIds == {2}
TowerSyncs ==
    [lockouts : SeqsUpTo(Lockouts, MaxLockouts),
     root : {<<>>} \cup {<<slot>> : slot \in Slots},
     hash : Hashes,
     timestamp : Timestamps,
     block_id : BlockIds]
\* Compact forms as a peer can send them: any root field, any offsets, and
\* confirmation counts of one byte.
LockoutOffsets == [confirmation_count : {0, 1, U8_MAX}, offset : Slots]
CompactTowerSyncs ==
    [root : Slots,
     lockout_offsets : SeqsUpTo(LockoutOffsets, MaxLockouts),
     hash : Hashes,
     timestamp : Timestamps,
     block_id : BlockIds]
TowerSyncInit ==
    /\ ProcessorAtRest
    /\ LockoutAtRest
    /\ CircBufAtRest
    /\ \/ /\ sent \in {<<tower_sync>> : tower_sync \in TowerSyncs}
          /\ wire = <<>>
       \/ /\ sent = <<>>
          /\ wire \in {<<[ok |-> TRUE, err |-> "", value |-> compact]>> :
                          compact \in CompactTowerSyncs}
    /\ received = <<>>
SerializeTowerSync ==
    /\ sent # <<>>
    /\ wire = <<>>
    /\ wire' = <<serde_tower_sync_serialize(sent[1])>>
    /\ UNCHANGED <<processorVars, lockoutVars, circBufVars, sent, received>>
DeserializeTowerSync ==
    /\ wire # <<>>
    /\ wire[1].ok
    /\ received = <<>>
    /\ received' = <<serde_tower_sync_deserialize(wire[1].value)>>
    /\ UNCHANGED <<processorVars, lockoutVars, circBufVars, sent, wire>>
TowerSyncNext ==
    \/ SerializeTowerSync
    \/ DeserializeTowerSync
TowerSyncSpec == TowerSyncInit /\ [][TowerSyncNext]_vars

(***************************************************************************)
(* Lockout on its own: a Lockout is made by new or                         *)
(* new_with_confirmation_count, its count is increased, and its methods    *)
(* are called.                                                             *)
(***************************************************************************)
Counts == 0..CountMax
LockoutInit ==
    /\ ProcessorAtRest
    /\ TowerSyncAtRest
    /\ CircBufAtRest
    /\ held \in {<<LockoutNew(slot)>> : slot \in Slots}
               \cup {<<new_with_confirmation_count(slot, c)>> : slot \in Slots, c \in Counts}
    /\ call = NoCall
IncreaseConfirmationCount ==
    /\ \E by \in Counts :
          held' = <<LockoutIncreaseConfirmationCount(held[1], by)>>
    /\ call' = NoCall
    /\ UNCHANGED <<processorVars, towerSyncVars, circBufVars>>
CallLockout ==
    /\ \E o \in LockoutLockout(held[1]) :
          call' = [slot |-> 0,
                   value |-> o.value,
                   panicked |-> o.panicked,
                   locked |-> FALSE,
                   method |-> "lockout"]
    /\ UNCHANGED <<processorVars, towerSyncVars, circBufVars, held>>
CallLastLockedOutSlot ==
    /\ \E o \in LockoutLastLockedOutSlot(held[1]) :
          call' = [slot |-> 0,
                   value |-> o.value,
                   panicked |-> o.panicked,
                   locked |-> FALSE,
                   method |-> "last_locked_out_slot"]
    /\ UNCHANGED <<processorVars, towerSyncVars, circBufVars, held>>
CallIsLockedOutAtSlot ==
    /\ \E slot \in Slots : \E o \in LockoutIsLockedOutAtSlot(held[1], slot) :
          call' = [slot |-> slot,
                   value |-> 0,
                   panicked |-> o.panicked,
                   locked |-> o.locked,
                   method |-> "is_locked_out_at_slot"]
    /\ UNCHANGED <<processorVars, towerSyncVars, circBufVars, held>>
LockoutNext ==
    \/ IncreaseConfirmationCount
    \/ CallLockout
    \/ CallLastLockedOutSlot
    \/ CallIsLockedOutAtSlot
LockoutSpec == LockoutInit /\ [][LockoutNext]_vars

(***************************************************************************)
(* CircBuf on its own: items are appended to a default buffer, and a       *)
(* reader steps back through it from the write index.                      *)
(***************************************************************************)
\* The k-th item appended: a prior-voter triple (Pubkey, Epoch, Epoch) that
\* carries k, so that every append can be told from every other.
Item(k) == <<1, k, k>>
\* The number of items a buffer can still hold after n appends.
Held(n) == IF n < MAX_ITEMS THEN n ELSE MAX_ITEMS
\* The position j steps back from the write index, modulo the capacity.
StepsBack(cb, j) == (cb.idx + MAX_ITEMS - j) % MAX_ITEMS
CircBufInit ==
    /\ ProcessorAtRest
    /\ TowerSyncAtRest
    /\ LockoutAtRest
    /\ CircBufAtRest
AppendItem ==
    /\ Len(appended) < MaxAppends
    /\ ring' = CircBufAppend(ring, Item(Len(appended) + 1))
    /\ appended' = Append(appended, Item(Len(appended) + 1))
    /\ walked' = 0
    /\ UNCHANGED <<processorVars, towerSyncVars, lockoutVars>>
StepBack ==
    /\ walked + 1 < Held(Len(appended))
    /\ walked' = walked + 1
    /\ UNCHANGED <<processorVars, towerSyncVars, lockoutVars, ring, appended>>
CircBufNext ==
    \/ AppendItem
    \/ StepBack
CircBufSpec == CircBufInit /\ [][CircBufNext]_vars

(***************************************************************************)
(* What the properties below read off a state. An invocation has returned  *)
(* and is being reported when the state is not Idle: `before` is then the  *)
(* account it found and `account` the account it left.                     *)
(***************************************************************************)
Returned == ~Idle
AuthorizeKinds ==
    {"Authorize", "AuthorizeChecked", "AuthorizeWithSeed", "AuthorizeCheckedWithSeed"}
CheckedKinds == {"AuthorizeChecked", "AuthorizeCheckedWithSeed"}
SeedKinds == {"AuthorizeWithSeed", "AuthorizeCheckedWithSeed"}

\* The vote state an account's bytes carry, in the current form.
CarriedState(acct) ==
    IF acct.data.layout = "bare_1_14_11"
    THEN convert_to_current([tag |-> "V1_14_11", state |-> acct.data.state])
    ELSE convert_to_current(acct.data)
\* The account carries an initialized / an uninitialized payload.
HoldsInitialized(acct) ==
    /\ acct.data.layout \in {"versions", "bare_1_14_11"}
    /\ ~AuthorizedVotersIsEmpty(acct.data.state.authorized_voters)
HoldsUninitialized(acct) ==
    \/ acct.data.layout = "zero"
    \/ /\ acct.data.layout = "versions"
       /\ AuthorizedVotersIsEmpty(acct.data.state.authorized_voters)
\* The invocation found an account the program decodes, and what it decoded.
DecodedBefore == Deserialize(before).ok
StateBefore == convert_to_current(Deserialize(before).versions)
InitializedBefore == DecodedBefore /\ ~is_uninitialized(Deserialize(before).versions)

\* The invocation went through process_authorize with a vote account: the
\* fixed-position reads before it did not fail.
SeedAccepted == accounts[3].is_signer => instruction.seed <= MAX_SEED_LEN
ReachedAuthorize ==
    /\ Returned
    /\ \/ instruction.kind = "Authorize" /\ Len(accounts) >= 1
       \/ instruction.kind = "AuthorizeChecked" /\ Len(accounts) >= 4
       \/ instruction.kind = "AuthorizeWithSeed" /\ Len(accounts) >= 3 /\ SeedAccepted
       \/ instruction.kind = "AuthorizeCheckedWithSeed" /\ Len(accounts) >= 4
          /\ SeedAccepted
\* The signer set that applies to it, and the authority it asks to install.
ApplicableSigners ==
    IF instruction.kind \in SeedKinds
    THEN IF accounts[3].is_signer THEN {DerivedKey(accounts[3].key)} ELSE {}
    ELSE {accounts[i].key : i \in {j \in 1..Len(accounts) : accounts[j].is_signer}}
NewAuthority ==
    IF instruction.kind \in CheckedKinds THEN accounts[4].key ELSE instruction.authorized

NoTornStore == account.data.layout # "torn"

(***************************************************************************)
(* C2  InitializeAccount succeeds exactly when the account carries the     *)
(* uninitialized payload, its length is the current-layout size, its       *)
(* balance is rent exempt for that length and the node key signed; and     *)
(* then the account carries a current-layout state with the given node and *)
(* withdrawer and a voter schedule of one entry, the given voter at the    *)
(* clock's epoch.                                                          *)
(***************************************************************************)
InitializeConditions ==
    /\ Len(accounts) >= 1
    /\ HoldsUninitialized(before)
    /\ before.data_len = CurrentStateSize
    /\ before.lamports >= minimum_balance(CurrentStateSize)
    /\ \E i \in 1..Len(accounts) :
          accounts[i].is_signer /\ accounts[i].key = instruction.vote_init.node_pubkey
InitializeExactly ==
    (Returned /\ instruction.kind = "InitializeAccount") =>
        /\ result = "Ok" <=> InitializeConditions
        /\ result = "Ok" =>
              /\ account.data.layout = "versions"
              /\ account.data.tag = "Current"
              /\ account.data_len = CurrentStateSize
              /\ account.lamports = before.lamports
              /\ account.data.state.node_pubkey = instruction.vote_init.node_pubkey
              /\ account.data.state.authorized_withdrawer =
                    instruction.vote_init.authorized_withdrawer
              /\ DOMAIN account.data.state.authorized_voters = {clock.epoch}
              /\ account.data.state.authorized_voters[clock.epoch] =
                    instruction.vote_init.authorized_voter
\* An initialization that succeeded, in a later epoch than the first, with a
\* voter that is not the node.
InitializeExactlyWitness ==
    /\ Returned
    /\ instruction.kind = "InitializeAccount"
    /\ result = "Ok"
    /\ clock.epoch = 1
    /\ instruction.vote_init.authorized_voter # instruction.vote_init.node_pubkey
    /\ HoldsInitialized(account)

(***************************************************************************)
(* C3  No re-initialization: once an InitializeAccount has succeeded on an *)
(* account, every later InitializeAccount on it fails and changes nothing, *)
(* and fails with AccountAlreadyInitialized when the balance and size      *)
(* checks pass.                                                            *)
(***************************************************************************)
NoReinitialization ==
    /\ initializations <= 1
    /\ (Returned /\ instruction.kind = "InitializeAccount" /\ Len(accounts) >= 1
        /\ initializations >= 1 /\ result # "Ok") =>
          /\ account = before
          /\ (/\ before.lamports >= minimum_balance(before.data_len)
              /\ before.data_len = CurrentStateSize)
                => result = "AccountAlreadyInitialized"
\* A second InitializeAccount, signed by its node, refused on an account this
\* program initialized and whose withdrawer was changed since.
NoReinitializationWitness ==
    /\ Returned
    /\ instruction.kind = "InitializeAccount"
    /\ result = "AccountAlreadyInitialized"
    /\ initializations = 1
    /\ stores = 2
    /\ before.data.tag = "Current"
    /\ before.data.state.votes = <<>>
    /\ instruction.vote_init.node_pubkey \in ApplicableSigners
    /\ account = before

(***************************************************************************)
(* C4  Lifecycle: an account carries an initialized payload only if an     *)
(* InitializeAccount succeeded on it; no other instruction makes an        *)
(* uninitialized account initialized, and no instruction makes an          *)
(* initialized account uninitialized.                                      *)
(***************************************************************************)
Lifecycle ==
    /\ HoldsInitialized(account) => initializations >= 1
    /\ (Returned /\ instruction.kind # "InitializeAccount"
        /\ ~HoldsInitialized(before)) => ~HoldsInitialized(account)
    /\ (Returned /\ HoldsInitialized(before)) => ~HoldsUninitialized(account)
\* An Authorize(Withdrawer) on an uninitialized account of the right size and
\* balance, with signatures: refused, the account still uninitialized.
LifecycleWitness ==
    /\ Returned
    /\ instruction.kind = "Authorize"
    /\ instruction.vote_authorize = "Withdrawer"
    /\ ApplicableSigners = Keys
    /\ before.data_len = CurrentStateSize
    /\ before.lamports >= minimum_balance(CurrentStateSize)
    /\ HoldsUninitialized(before)
    /\ HoldsUninitialized(account)
    /\ initializations = 0

\* The authorities the invocation found, and the schedule it left.
WithdrawerBefore == StateBefore.authorized_withdrawer
VotersBefore == StateBefore.authorized_voters
VotersAfter == CarriedState(account).authorized_voters
\* The voter in effect at the epoch a new voter would be scheduled for.
TargetVoterBefore == AuthorizedVoterForEpoch(VotersBefore, clock.leader_schedule_epoch + 1)
ConsentGiven ==
    \/ WithdrawerBefore \in ApplicableSigners
    \/ TargetVoterBefore # <<>> /\ TargetVoterBefore[1] \in ApplicableSigners

VoterApprovalBelowMaxEpoch ==
    (ReachedAuthorize /\ instruction.vote_authorize = "Voter" /\ InitializedBefore) =>
        IF clock.leader_schedule_epoch = EpochMax
        THEN result = "InvalidAccountData" /\ account = before
        ELSE /\ result # "MissingRequiredSignature" <=> ConsentGiven
             /\ result = "Ok" => ConsentGiven
             /\ ~ConsentGiven => account = before
\* Approved on the withdrawer's signature alone: the voter in effect at the
\* target epoch did not sign.
VoterApprovalBelowMaxEpochWitness ==
    /\ ReachedAuthorize
    /\ instruction.vote_authorize = "Voter"
    /\ InitializedBefore
    /\ clock.leader_schedule_epoch < EpochMax
    /\ WithdrawerBefore \in ApplicableSigners
    /\ TargetVoterBefore[1] \notin ApplicableSigners
    /\ result = "Ok"
\* C6 as stated, at every leader_schedule_epoch.
VoterApprovalAtEveryEpoch ==
    (ReachedAuthorize /\ instruction.vote_authorize = "Voter" /\ InitializedBefore) =>
        /\ result # "MissingRequiredSignature" <=> ConsentGiven
        /\ ~ConsentGiven => result = "MissingRequiredSignature"

(***************************************************************************)
(* C7  Authorize(Withdrawer) succeeds only if the stored withdrawer is in  *)
(* the applicable signer set, fails with MissingRequiredSignature when it  *)
(* is not, and on success the stored withdrawer is the new one at once:    *)
(* from then on it is the stored withdrawer, not an earlier one, whose     *)
(* signature Authorize(Withdrawer), the withdrawer branch of               *)
(* Authorize(Voter) and UpdateValidatorIdentity ask for.                   *)
(***************************************************************************)
WithdrawerAuthorization ==
    /\ (ReachedAuthorize /\ instruction.vote_authorize = "Withdrawer"
        /\ DecodedBefore) =>
          /\ result = "Ok" =>
                /\ WithdrawerBefore \in ApplicableSigners
                /\ CarriedState(account).authorized_withdrawer = NewAuthority
          /\ WithdrawerBefore \notin ApplicableSigners =>
                result = "MissingRequiredSignature" /\ account = before
    /\ (ReachedAuthorize /\ instruction.vote_authorize = "Voter" /\ DecodedBefore
        /\ result = "Ok" /\ WithdrawerBefore \notin ApplicableSigners) =>
          TargetVoterBefore # <<>> /\ TargetVoterBefore[1] \in ApplicableSigners
    /\ (Returned /\ instruction.kind = "UpdateValidatorIdentity" /\ result = "Ok") =>
          WithdrawerBefore \in ApplicableSigners
\* The account's first withdrawer was replaced; an Authorize(Withdrawer) that
\* the first withdrawer signs and the stored one does not is refused.
WithdrawerAuthorizationWitness ==
    /\ ReachedAuthorize
    /\ instruction.vote_authorize = "Withdrawer"
    /\ DecodedBefore
    /\ StateBefore.votes # <<>>
    /\ WithdrawerBefore # LegacyVoteState.authorized_withdrawer
    /\ LegacyVoteState.authorized_withdrawer \in ApplicableSigners
    /\ WithdrawerBefore \notin ApplicableSigners
    /\ result = "MissingRequiredSignature"

(***************************************************************************)
(* C8  Seed-derived authority, as stated: for AuthorizeWithSeed and        *)
(* AuthorizeCheckedWithSeed on an initialized account, when the account in *)
(* the third slot (the seed base) is not a signer the call fails with      *)
(* MissingRequiredSignature and changes nothing, whoever else signed; when *)
(* it is a signer, only the derived key can approve.                       *)
(***************************************************************************)
SeedBaseMustSign ==
    (Returned /\ instruction.kind \in SeedKinds /\ Len(accounts) >= 3
     /\ InitializedBefore) =>
        /\ ~accounts[3].is_signer =>
              result = "MissingRequiredSignature" /\ account = before
        /\ (accounts[3].is_signer /\ result = "Ok") =>
              \/ DerivedKey(accounts[3].key) = WithdrawerBefore
              \/ /\ instruction.vote_authorize = "Voter"
                 /\ <<DerivedKey(accounts[3].key)>> = TargetVoterBefore

(***************************************************************************)
(* C9  UpdateValidatorIdentity succeeds only if the stored withdrawer and  *)
(* the second account's key are both in the signer set; when either is     *)
(* missing it fails with MissingRequiredSignature and the stored node is   *)
(* unchanged; on success the stored node is the second account's key.      *)
(***************************************************************************)
IdentityUpdate ==
    (Returned /\ instruction.kind = "UpdateValidatorIdentity" /\ Len(accounts) >= 2
     /\ DecodedBefore) =>
        LET both == /\ WithdrawerBefore \in ApplicableSigners
                    /\ accounts[2].key \in ApplicableSigners
        IN  /\ result = "Ok" =>
                  both /\ CarriedState(account).node_pubkey = accounts[2].key
            /\ ~both =>
                  /\ result = "MissingRequiredSignature"
                  /\ CarriedState(account).node_pubkey = StateBefore.node_pubkey
\* The node of an initialized account replaced by another key.
IdentityUpdateWitness ==
    /\ Returned
    /\ instruction.kind = "UpdateValidatorIdentity"
    /\ InitializedBefore
    /\ result = "Ok"
    /\ accounts[2].key # StateBefore.node_pubkey
    /\ CarriedState(account).node_pubkey = accounts[2].key

(***************************************************************************)
(* C10  TowerSync and TowerSyncSwitch are always rejected with             *)
(* InvalidInstructionData, whatever the account list and the account, and  *)
(* the account is left as it was.                                          *)
(***************************************************************************)
TowerSyncRejected ==
    (Returned /\ instruction.kind \in TowerSyncKinds) =>
        result = "InvalidInstructionData" /\ account = before
\* A TowerSyncSwitch everybody signed, on an initialized account.
TowerSyncRejectedWitness ==
    /\ Returned
    /\ instruction.kind = "TowerSyncSwitch"
    /\ InitializedBefore
    /\ ApplicableSigners = Keys
    /\ result = "InvalidInstructionData"

(***************************************************************************)
(* C11  Stubbed instructions are rejected: every Vote / VoteSwitch,        *)
(* UpdateCommission, UpdateVoteState, CompactUpdateVoteState (and their    *)
(* Switch variants) and Withdraw instruction is rejected with              *)
(* InvalidInstructionData; none of them reports success.                   *)
(***************************************************************************)
StubsRejected ==
    (Returned /\ instruction.kind \in StubKinds) =>
        result = "InvalidInstructionData"

\* The invocation ran set_vote_account_state and it succeeded.
StoringKinds == {"InitializeAccount"} \cup AuthorizeKinds \cup {"UpdateValidatorIdentity"}
Stored == Returned /\ instruction.kind \in StoringKinds /\ result = "Ok"
TooSmallBefore == before.data_len < CurrentStateSize
ExemptAtCurrentSize == before.lamports >= minimum_balance(CurrentStateSize)

(***************************************************************************)
(* C12  Encoding choice of set_vote_account_state: the legacy layout (the  *)
(* state converted to VoteState1_14_11) is written exactly when the buffer *)
(* is smaller than the current size and either the balance is not exempt   *)
(* at the current size or the growth attempt fails, and then the buffer    *)
(* keeps its length; in every other case the current tagged encoding is    *)
(* written into a buffer of at least the current size. The buffer grows    *)
(* only when it was too small and the balance exempt at the larger size.   *)
(***************************************************************************)
EncodingChoice ==
    Stored =>
        /\ account.data.layout = "bare_1_14_11" <=>
              (TooSmallBefore /\ (~ExemptAtCurrentSize \/ ~host.realloc_ok))
        /\ account.data.layout = "bare_1_14_11" =>
              /\ account.data_len = before.data_len
              /\ account.data.state = VoteState1_14_11From(CarriedState(account))
        /\ account.data.layout # "bare_1_14_11" =>
              /\ account.data.layout = "versions"
              /\ account.data.tag = "Current"
              /\ account.data_len >= CurrentStateSize
        /\ account.data_len # before.data_len =>
              /\ TooSmallBefore /\ ExemptAtCurrentSize /\ host.realloc_ok
              /\ account.data_len = CurrentStateSize
        /\ account.lamports = before.lamports
\* A legacy-sized buffer one lamport short of exemption at the current size:
\* the store succeeds and writes the legacy layout.
EncodingChoiceWitness ==
    /\ Stored
    /\ before.data_len = LegacyStateSize
    /\ before.lamports = minimum_balance(CurrentStateSize) - 1
    /\ account.data.layout = "bare_1_14_11"
    /\ account.data_len = LegacyStateSize
\* The buffer grown in place and the current encoding written.
EncodingChoiceGrown ==
    /\ Stored
    /\ before.data_len = LegacyStateSize
    /\ account.data_len = CurrentStateSize
    /\ account.data.tag = "Current"

(***************************************************************************)
(* C13  Closed error set and no abort: every invocation of process, for    *)
(* every instruction, every number of accounts and every clock value,      *)
(* either succeeds or returns InvalidInstructionData, InvalidAccountData,  *)
(* MissingRequiredSignature, AccountAlreadyInitialized or                  *)
(* InsufficientFunds; it never panics and returns no other error.          *)
(***************************************************************************)
DocumentedResults ==
    {"Ok", "InvalidInstructionData", "InvalidAccountData", "MissingRequiredSignature",
     "AccountAlreadyInitialized", "InsufficientFunds"}
ClosedErrorSet == Returned => result \in DocumentedResults

(***************************************************************************)
(* What the properties of the codec read off a state.                      *)
(***************************************************************************)
\* serialize was given a TowerSync and accepted it
Encoded == sent # <<>> /\ wire # <<>> /\ wire[1].ok
\* serialize was given a TowerSync and rejected it
EncodeFailed == sent # <<>> /\ wire # <<>> /\ ~wire[1].ok
\* deserialize has run on what is on the wire
Decoded == wire # <<>> /\ received # <<>>

(* C14: TowerSync round trip. For every TowerSync whose compact encoding   *)
(* succeeds, with any root (none, or any slot up to the largest) and any   *)
(* number of lockouts, decoding the encoding succeeds and gives back the   *)
(* same TowerSync in every field; and a root of none goes on the wire as   *)
(* the largest slot value and comes back as none.                          *)
RoundTrip ==
    /\ Encoded /\ sent[1].root = <<>> => wire[1].value.root = SlotMax
    /\ (Encoded /\ Decoded) =>
          /\ received[1].ok
          /\ received[1].value = sent[1]

\* The anchor of the i-th lockout of a TowerSync, read off the TowerSync: the
\* previous lockout's slot, or for the first lockout the root, or 0.
AnchorOf(x, i) == IF i > 1 THEN x.lockouts[i - 1].slot ELSE IF x.root = <<>> THEN 0 ELSE x.root[1]
\* serialize has run on a TowerSync
SerializeReturned == sent # <<>> /\ wire # <<>>
EncodeErrors == {"Invalid vote lockout", "Invalid confirmation count"}
\* The example of the specification: root 5, lockouts (10, 1) and (20, 2).
ExampleTowerSync == [lockouts |-> <<new_with_confirmation_count(10, 1), new_with_confirmation_count(20, 2)>>, root |-> <<5>>, hash |-> 1, timestamp |-> <<>>, block_id |-> 2]

(* C15: TowerSync encoding fails, with a serialization error, if and only  *)
(* if some lockout's slot is below its anchor (the previous lockout's      *)
(* slot, or the root for the first, or 0 without a root) or some           *)
(* confirmation count exceeds 255. Otherwise it succeeds, emits one offset *)
(* per lockout equal to slot minus anchor, and keeps the count; root 5     *)
(* with lockouts (10, 1), (20, 2) gives root field 5, offsets 5 and 10,    *)
(* counts 1 and 2.                                                         *)
EncodingFailure ==
    /\ SerializeReturned =>
          LET x == sent[1]
              w == wire[1]
              n == Len(x.lockouts)
          IN  /\ ~w.ok <=>
                    \E i \in 1..n :
                        \/ x.lockouts[i].slot < AnchorOf(x, i)
                        \/ x.lockouts[i].confirmation_count > 255
              /\ ~w.ok => w.err \in EncodeErrors
              /\ w.ok =>
                    /\ Len(w.value.lockout_offsets) = n
                    /\ \A i \in 1..n :
                          /\ w.value.lockout_offsets[i].offset =
                                x.lockouts[i].slot - AnchorOf(x, i)
                          /\ w.value.lockout_offsets[i].confirmation_count =
                                x.lockouts[i].confirmation_count
    /\ LET e == serde_tower_sync_serialize(ExampleTowerSync)
       IN  /\ e.ok
           /\ e.value.root = 5
           /\ e.value.lockout_offsets =
                 <<[confirmation_count |-> 1, offset |-> 5],
                   [confirmation_count |-> 2, offset |-> 10]>>
\* serialize rejected a TowerSync whose second lockout is below its first
EncodingFailureWitness ==
    /\ EncodeFailed
    /\ Len(sent[1].lockouts) = 2
    /\ sent[1].lockouts[1].slot >= AnchorOf(sent[1], 1)
    /\ sent[1].lockouts[2].slot < sent[1].lockouts[1].slot
    /\ \A i \in 1..2 : sent[1].lockouts[i].confirmation_count <= 255
    /\ wire[1].err = "Invalid vote lockout"
\* serialize rejected a TowerSync for a confirmation count alone
EncodingFailureCount ==
    /\ EncodeFailed
    /\ \A i \in 1..Len(sent[1].lockouts) : sent[1].lockouts[i].slot >= AnchorOf(sent[1], i)
    /\ wire[1].err = "Invalid confirmation count"
\* serialize accepted a TowerSync with a root and two lockouts above it
EncodingSuccess ==
    /\ Encoded
    /\ sent[1].root = <<1>>
    /\ Len(sent[1].lockouts) = 2
    /\ wire[1].value.lockout_offsets[1].offset = 1
    /\ wire[1].value.lockout_offsets[2].offset = 1

\* deserialize has run on a compact form
DeserializeReturned == wire # <<>> /\ wire[1].ok /\ received # <<>>
\* The anchor deserialize starts from, read off the compact form.
CompactAnchor(c) == IF c.root = SlotMax THEN 0 ELSE c.root
\* The sum of the first k offsets of a compact form.
RECURSIVE OffsetSum(_, _)
OffsetSum(c, k) == IF k = 0 THEN 0 ELSE OffsetSum(c, k - 1) + c.lockout_offsets[k].offset

(* C16: TowerSync decoding restores each lockout's slot as the anchor plus *)
(* the sum of the offsets up to it, the anchor being the root field, or 0  *)
(* when the root field is the largest slot value; it fails with an error,  *)
(* and never wraps around, exactly when such a sum exceeds the largest     *)
(* slot value. A decoded tower has non-decreasing slots, none below its    *)
(* root, and confirmation counts of at most 255.                           *)
DecodingOverflow ==
    DeserializeReturned =>
        LET c == wire[1].value
            r == received[1]
            n == Len(c.lockout_offsets)
        IN  /\ ~r.ok <=> \E k \in 1..n : CompactAnchor(c) + OffsetSum(c, k) > SlotMax
            /\ ~r.ok => r.err = "Invalid lockout offset"
            /\ r.ok =>
                  /\ r.value.root = IF c.root = SlotMax THEN <<>> ELSE <<c.root>>
                  /\ Len(r.value.lockouts) = n
                  /\ \A k \in 1..n :
                        /\ r.value.lockouts[k].slot = CompactAnchor(c) + OffsetSum(c, k)
                        /\ r.value.lockouts[k].confirmation_count =
                              c.lockout_offsets[k].confirmation_count
                        /\ r.value.lockouts[k].confirmation_count <= 255
                        /\ r.value.lockouts[k].slot >= AnchorOf(r.value, k)
\* deserialize rejected a received compact form whose second offset takes
\* the running sum past the largest slot
DecodingOverflowWitness ==
    /\ sent = <<>>
    /\ DeserializeReturned
    /\ ~received[1].ok
    /\ Len(wire[1].value.lockout_offsets) = 2
    /\ wire[1].value.root = 1
    /\ 1 + wire[1].value.lockout_offsets[1].offset <= SlotMax
    /\ 1 + wire[1].value.lockout_offsets[1].offset + wire[1].value.lockout_offsets[2].offset > SlotMax
\* deserialize accepted a received compact form without a root
DecodingFromZero ==
    /\ sent = <<>>
    /\ DeserializeReturned
    /\ received[1].ok
    /\ wire[1].value.root = SlotMax
    /\ Len(received[1].value.lockouts) = 2
    /\ received[1].value.lockouts[2].slot = SlotMax

\* The Lockout under test holds slot s and count c, and a method returned
LockoutCalled(method) == held # <<>> /\ call.method = method /\ held[1].confirmation_count >= 1
\* slot + 2^c, saturated at the largest slot value
SaturatedEnd(lockout) == IF lockout.slot + 2 ^ lockout.confirmation_count > SlotMax THEN SlotMax ELSE lockout.slot + 2 ^ lockout.confirmation_count

(* C17: Lockout arithmetic is total and exact. For every slot s and every  *)
(* confirmation count c >= 1 a Lockout can hold, counts at and above the   *)
(* width of a slot included, lockout() is 2^c, last_locked_out_slot() is   *)
(* s + 2^c saturated at the largest slot value, is_locked_out_at_slot(t)   *)
(* is true exactly when that is at least t, and no method aborts or wraps. *)
LockoutArithmetic ==
    /\ LockoutCalled("lockout") =>
          ~call.panicked /\ call.value = 2 ^ held[1].confirmation_count
    /\ LockoutCalled("last_locked_out_slot") =>
          ~call.panicked /\ call.value = SaturatedEnd(held[1])
    /\ LockoutCalled("is_locked_out_at_slot") =>
          ~call.panicked /\ (call.locked <=> SaturatedEnd(held[1]) >= call.slot)

\* The positions of a CircBuf
Positions == 0..(MAX_ITEMS - 1)
\* The items a reader reaches by stepping back from the write index over
\* the positions that were written
Reachable == {ring.buf[StepsBack(ring, j)] : j \in 0..(Held(Len(appended)) - 1)}

(* C18: CircBuf retention. After n appends to a default buffer it holds    *)
(* exactly the last min(n, 32) appended items, in append order when walked *)
(* backwards modulo 32 from the write index, and every older item is gone; *)
(* after appending items 1..40 exactly items 9..40 are reachable and       *)
(* last() is item 40.                                                      *)
Retention ==
    LET n == Len(appended)
    IN  /\ \A j \in 0..(Held(n) - 1) : ring.buf[StepsBack(ring, j)] = appended[n - j]
        /\ ring.buf[StepsBack(ring, walked)] = IF n = 0 THEN DefaultItem ELSE appended[n - walked]
        /\ Reachable = {appended[k] : k \in (n - Held(n) + 1)..n}
        /\ \A k \in 1..(n - Held(n)) : \A i \in Positions : ring.buf[i] # appended[k]
        /\ \A i \in Positions : ring.buf[i] \in Reachable \cup {DefaultItem}
        /\ n = 40 =>
              /\ Reachable = {Item(k) : k \in 9..40}
              /\ CircBufLast(ring) = <<Item(40)>>
\* 40 items were appended and a reader has stepped back to the oldest item
\* the buffer still holds, the ninth
RetentionWitness ==
    /\ Len(appended) = 40
    /\ walked = MAX_ITEMS - 1
    /\ ring.buf[StepsBack(ring, walked)] = Item(9)

(* C19: CircBuf state invariant. The write index is always within 0..31;   *)
(* the buffer is flagged empty, and last() returns nothing, if and only if *)
(* nothing was ever appended; after an append last() returns the item      *)
(* appended last; the first append writes position 0 and the k-th append   *)
(* writes position (k - 1) mod 32.                                         *)
CircBufInvariant ==
    LET k == Len(appended)
    IN  /\ ring.idx \in 0..31
        /\ ring.is_empty <=> k = 0
        /\ CircBufLast(ring) = <<>> <=> k = 0
        /\ k >= 1 =>
              /\ CircBufLast(ring) = <<appended[k]>>
              /\ ring.buf[(k - 1) % 32] = appended[k]
              /\ \A i \in Positions : ring.buf[i] = appended[k] => i = (k - 1) % 32
        /\ k = 1 => ring.buf[0] = appended[1]
\* the 33rd append has written position 0 again
CircBufInvariantWitness ==
    /\ Len(appended) = MAX_ITEMS + 1
    /\ ring.idx = 0
    /\ CircBufLast(ring) = <<Item(MAX_ITEMS + 1)>>

\* The logical fields of a vote state
VoteStateFields == {"node_pubkey", "authorized_withdrawer", "commission", "votes", "root_slot", "authorized_voters", "prior_voters", "epoch_credits", "last_timestamp"}
\* Two vote states are equal in every field but those of `changed`
SameExcept(a, b, changed) == DOMAIN a = VoteStateFields /\ DOMAIN b = VoteStateFields /\ \A f \in VoteStateFields \ changed : a[f] = b[f]

(* C20: Frame of the authority mutations. A successful Authorize of the    *)
(* withdrawer leaves every logical field of the vote state but the         *)
(* authorized withdrawer as it was; a successful Authorize of the voter    *)
(* every field but the authorized-voter schedule and the prior-voter       *)
(* history; a successful UpdateValidatorIdentity every field but the node  *)
(* identity; also when the account was in the legacy layout before and is  *)
(* stored in the current layout after.                                     *)
AuthorityFrame ==
    /\ (ReachedAuthorize /\ result = "Ok" /\ instruction.vote_authorize = "Withdrawer") =>
          SameExcept(StateBefore, CarriedState(account), {"authorized_withdrawer"})
    /\ (ReachedAuthorize /\ result = "Ok" /\ instruction.vote_authorize = "Voter") =>
          SameExcept(StateBefore, CarriedState(account), {"authorized_voters", "prior_voters"})
    /\ (Returned /\ instruction.kind = "UpdateValidatorIdentity" /\ result = "Ok") =>
          SameExcept(StateBefore, CarriedState(account), {"node_pubkey"})
\* A legacy-layout account with a vote in its history got a new withdrawer
\* and was stored, grown, in the current layout.
AuthorityFrameWitness ==
    /\ ReachedAuthorize
    /\ result = "Ok"
    /\ instruction.vote_authorize = "Withdrawer"
    /\ before.data.tag = "V1_14_11"
    /\ before.data_len = LegacyStateSize
    /\ account.data.tag = "Current"
    /\ account.data_len = CurrentStateSize
    /\ StateBefore.votes # <<>>
    /\ CarriedState(account).authorized_withdrawer # StateBefore.authorized_withdrawer
\* The same for a new voter, and for a new node identity.
AuthorityFrameVoter ==
    /\ ReachedAuthorize
    /\ result = "Ok"
    /\ instruction.vote_authorize = "Voter"
    /\ before.data.tag = "V1_14_11"
    /\ account.data.tag = "Current"
    /\ account.data.layout = "versions"
    /\ CarriedState(account).authorized_voters # StateBefore.authorized_voters
AuthorityFrameNode ==
    /\ Returned
    /\ instruction.kind = "UpdateValidatorIdentity"
    /\ result = "Ok"
    /\ before.data.tag = "V1_14_11"
    /\ account.data.layout = "versions"
    /\ account.data.tag = "Current"
    /\ CarriedState(account).node_pubkey # StateBefore.node_pubkey

\* What the next instruction reads off the account: the buffer decoded as the
\* VoteStateVersions envelope and converted to the current version.
NextRead == Deserialize(account)
NextReadState == convert_to_current(NextRead.versions)

(* C21: Stored-state round trip across instructions. After a successful    *)
(* instruction that stores a vote state, on the current-encoding path or   *)
(* on the legacy fallback path, the next instruction's read of the buffer  *)
(* (decode the tagged envelope, convert to the current version) succeeds   *)
(* and yields the vote state that was stored, and the account is still     *)
(* recognised as initialized.                                              *)
StoredRoundTrip ==
    Stored =>
        /\ NextRead.ok
        /\ NextReadState = CarriedState(account)
        /\ ~is_uninitialized(NextRead.versions)
        /\ instruction.kind = "InitializeAccount" =>
              NextReadState = VoteStateNew(instruction.vote_init, clock)

(* C22: Buffer length monotonicity. No instruction makes the vote          *)
(* account's data length smaller; the only change of length an instruction *)
(* makes is growing a buffer smaller than the current-encoding size to     *)
(* exactly that size, and only when the balance is rent-exempt at that     *)
(* size. InitializeAccount never changes the length and never writes the   *)
(* legacy layout.                                                          *)
LengthMonotone ==
    Returned =>
        /\ account.data_len >= before.data_len
        /\ account.data_len # before.data_len =>
              /\ before.data_len < CurrentStateSize
              /\ account.data_len = CurrentStateSize
              /\ is_exempt(before.lamports, CurrentStateSize)
        /\ instruction.kind = "InitializeAccount" =>
              /\ account.data_len = before.data_len
              /\ account.data.layout = "bare_1_14_11" => account = before
\* UpdateValidatorIdentity grew a legacy-sized buffer whose balance is just
\* exempt at the current size.
LengthMonotoneWitness ==
    /\ Returned
    /\ instruction.kind = "UpdateValidatorIdentity"
    /\ result = "Ok"
    /\ before.data_len = LegacyStateSize
    /\ before.lamports = minimum_balance(CurrentStateSize)
    /\ account.data_len = CurrentStateSize
\* InitializeAccount stored into a buffer of exactly the current size.
LengthMonotoneInitialize ==
    /\ Returned
    /\ instruction.kind = "InitializeAccount"
    /\ result = "Ok"
    /\ account.data_len = CurrentStateSize
    /\ account.data.layout = "versions"
    /\ before.data.layout = "zero"

\* InitializeAccount has returned, and it had a vote account to look at
InitializeReturned == Returned /\ instruction.kind = "InitializeAccount" /\ Len(accounts) >= 1
\* The conditions InitializeAccount asks for, read off the account it found
BalanceShort == before.lamports < minimum_balance(before.data_len)
SizeWrong == before.data_len # CurrentStateSize
NodeSigned == \E i \in 1..Len(accounts) : accounts[i].is_signer /\ accounts[i].key = instruction.vote_init.node_pubkey

(* C23: InitializeAccount rejection categories. A balance short of the     *)
(* exemption at the buffer's actual length is rejected with                *)
(* InsufficientFunds, a buffer not of exactly the current size with        *)
(* InvalidAccountData, an undecodable buffer with InvalidAccountData, an   *)
(* initialized account with AccountAlreadyInitialized, and a missing       *)
(* signature of the node identity with MissingRequiredSignature; when      *)
(* several hold, the first in this order is reported, and the call         *)
(* succeeds when none holds. A rejected call leaves the account as it was. *)
InitializeRejections ==
    InitializeReturned =>
        /\ result =
              IF BalanceShort THEN "InsufficientFunds"
              ELSE IF SizeWrong THEN "InvalidAccountData"
              ELSE IF ~DecodedBefore THEN "InvalidAccountData"
              ELSE IF InitializedBefore THEN "AccountAlreadyInitialized"
              ELSE IF ~NodeSigned THEN "MissingRequiredSignature"
              ELSE "Ok"
        /\ result # "Ok" => account = before
\* A wrong-sized buffer with a balance short at its actual size, and no
\* signature of the node either: the balance is what is reported.
InitializeRejectionsWitness ==
    /\ InitializeReturned
    /\ before.data_len = LegacyStateSize
    /\ BalanceShort
    /\ ~NodeSigned
    /\ result = "InsufficientFunds"
\* The other categories, each alone.
InitializeRejectedSize == InitializeReturned /\ ~BalanceShort /\ SizeWrong /\ NodeSigned /\ result = "InvalidAccountData"
InitializeRejectedInitialized == InitializeReturned /\ ~BalanceShort /\ ~SizeWrong /\ InitializedBefore /\ ~NodeSigned /\ result = "AccountAlreadyInitialized"
InitializeRejectedSignature == InitializeReturned /\ ~BalanceShort /\ ~SizeWrong /\ ~InitializedBefore /\ ~NodeSigned /\ result = "MissingRequiredSignature"

====
